---- MODULE Spec2Model ----
(***************************************************************************)
(* Supplier-Predictor backend (src/backend/pipeline.py, main.py).          *)
(*                                                                         *)
(* Three views of the program share this module:                           *)
(*   Spec / SeqSpec / FairSpec  the artifact lifecycle: HTTP workers       *)
(*        calling run_pipeline and get_best_suppliers on the shared files  *)
(*        (concurrently, one call at a time, and with fair scheduling);    *)
(*   RankSpec  the ranking part of get_best_suppliers on a loaded table;   *)
(*   RiskSpec  fetch_weather_risk / fetch_war_risk and the enrichment      *)
(*        passes of run_pipeline.                                          *)
(***************************************************************************)
EXTENDS Integers, Sequences, FiniteSets, TLC

\* ---------------------------------------------------------------- bounds
\* HTTP worker threads serving requests at the same time.
NumWorkers == 2
\* Pipeline runs admitted in one behaviour (each run writes a new generation).
MaxRuns == 2
\* Rows of the raw dataset in the lifecycle view (two provider calls per row).
RawRows == 1

Workers == 1..NumWorkers

VARIABLES
    rawCsv,         \* RAW_CSV.exists()
    processedCsv,   \* PROCESSED_CSV: [st, gen]
    modelFile,      \* MODEL_PATH: [st, gen]
    nextGen,        \* generation the next admitted pipeline run will write
    worker,         \* per HTTP worker: position in the call and what it saw
    \* the ranking view
    table,          \* rows of PROCESSED_CSV as loaded by get_best_suppliers
    predicted,      \* model.predict_proba(df[FEATURES])[:, 1], one per row
    warehousesCsv,  \* WAREHOUSES_CSV: "missing" or its rows
    result,         \* what get_best_suppliers returned (or NoResult)
    \* the enrichment view
    riskDf,         \* the WeatherRisk / WarRisk columns of run_pipeline's df
    riskCsv,        \* those columns as written to PROCESSED_CSV
    riskPc          \* position of the enrichment

lifeVars == <<rawCsv, processedCsv, modelFile, nextGen, worker>>
rankVars == <<table, predicted, warehousesCsv, result>>
riskVars == <<riskDf, riskCsv, riskPc>>
others == <<rankVars, riskVars>>
vars == <<lifeVars, rankVars, riskVars>>

\* ------------------------------------------------------------ file states
Absent == [st |-> "absent", gen |-> 0]
Full(g) == [st |-> "full", gen |-> g]
Partial(g) == [st |-> "partial", gen |-> g]

\* Path.exists(): a file being rewritten exists.
Exists(f) == f.st # "absent"

IdleWorker ==
    [pc |-> "idle", kind |-> "none", ret |-> "api", gen |-> 0, calls |-> 0,
     outcome |-> "none", startMissing |-> FALSE, inlineRuns |-> 0,
     readCsv |-> "none"]

RunPcs == {"run_check", "run_fetch", "run_open", "run_write", "run_train", "run_blocked"}

\* An exception leaves run_pipeline and, uncaught, the whole request.
Raise(p, what) ==
    worker' = [worker EXCEPT ![p].pc = "idle", ![p].outcome = what,
                             ![p].ret = "api", ![p].gen = 0, ![p].calls = 0]

\* run_pipeline returns: to the endpoint, or into get_best_suppliers.
Return(p) ==
    worker' = [worker EXCEPT
                 ![p].pc = IF worker[p].ret = "api" THEN "idle" ELSE worker[p].ret,
                 ![p].outcome = IF worker[p].ret = "api" THEN "ok" ELSE worker[p].outcome,
                 ![p].ret = "api", ![p].gen = 0]

\* ------------------------------------------------------------- endpoints
\* GET /run-pipeline
ApiRunPipeline(p) ==
    /\ worker[p].pc = "idle"
    /\ nextGen <= MaxRuns
    /\ worker' = [worker EXCEPT ![p] =
                    [IdleWorker EXCEPT !.pc = "run_check", !.kind = "run",
                                       !.gen = nextGen]]
    /\ nextGen' = nextGen + 1
    /\ UNCHANGED <<others, rawCsv, processedCsv, modelFile>>

\* GET /best-suppliers
ApiBestSuppliers(p) ==
    /\ worker[p].pc = "idle"
    /\ worker' = [worker EXCEPT ![p] =
                    [IdleWorker EXCEPT !.pc = "q_check_csv", !.kind = "query",
                                       !.startMissing = ~Exists(processedCsv)
                                                        \/ ~Exists(modelFile)]]
    /\ UNCHANGED <<others, rawCsv, processedCsv, modelFile, nextGen>>

\* ----------------------------------------------------------- run_pipeline
\* Faulty variant: the raw dataset is not checked before the run goes on.
RunCheckRaw_NoCheck(p) ==
    /\ worker[p].pc = "run_check"
    /\ worker' = [worker EXCEPT ![p].pc = "run_fetch", ![p].calls = 0]
    /\ UNCHANGED <<others, rawCsv, processedCsv, modelFile, nextGen>>

\* if not RAW_CSV.exists(): raise FileNotFoundError; else read, rename,
\* perturb and clip in memory.
RunCheckRaw(p) ==
    /\ worker[p].pc = "run_check"
    /\ IF ~rawCsv
         THEN Raise(p, "not_found")
         ELSE worker' = [worker EXCEPT ![p].pc = "run_fetch", ![p].calls = 0]
    /\ UNCHANGED <<others, rawCsv, processedCsv, modelFile, nextGen>>

\* One requests.get of the two enrichment passes.  The call carries no
\* timeout: a provider that answers (with data or an error) lets the pass
\* move on, a silent provider leaves the call waiting.
RunFetchRisk(p) ==
    /\ worker[p].pc = "run_fetch"
    /\ \E provider \in {"answer", "error", "silent"} :
         worker' = [worker EXCEPT
            ![p].pc = IF provider = "silent" THEN "run_blocked"
                      ELSE IF worker[p].calls + 1 = 2 * RawRows THEN "run_open"
                      ELSE "run_fetch",
            ![p].calls = IF provider = "silent" THEN worker[p].calls
                         ELSE IF worker[p].calls + 1 = 2 * RawRows THEN 0
                         ELSE worker[p].calls + 1]
    /\ UNCHANGED <<others, rawCsv, processedCsv, modelFile, nextGen>>

\* df.to_csv(PROCESSED_CSV): the file is opened for writing in place, which
\* truncates it ...
RunToCsvOpen(p) ==
    /\ worker[p].pc = "run_open"
    /\ processedCsv' = Partial(worker[p].gen)
    /\ worker' = [worker EXCEPT ![p].pc = "run_write"]
    /\ UNCHANGED <<others, rawCsv, modelFile, nextGen>>

\* ... and is complete once the last row is written and the file closed.
\* When another run has truncated the file meanwhile, that run's write stands.
RunToCsvClose(p) ==
    /\ worker[p].pc = "run_write"
    /\ processedCsv' = IF processedCsv.gen = worker[p].gen
                         THEN Full(worker[p].gen) ELSE processedCsv
    /\ worker' = [worker EXCEPT ![p].pc = "run_train"]
    /\ UNCHANGED <<others, rawCsv, modelFile, nextGen>>

\* train_model(df, MODEL_PATH): model.fit then joblib.dump; either may raise,
\* and nothing in run_pipeline catches it.
RunTrainModel(p) ==
    /\ worker[p].pc = "run_train"
    /\ \E fitted \in BOOLEAN :
         IF fitted
           THEN /\ modelFile' = Full(worker[p].gen)
                /\ Return(p)
           ELSE /\ modelFile' = modelFile
                /\ Raise(p, "train_error")
    /\ UNCHANGED <<others, rawCsv, processedCsv, nextGen>>

\* ------------------------------------------------------ get_best_suppliers
\* The inline call of run_pipeline, returning to `back`.
InlineRun(p, back) ==
    /\ nextGen <= MaxRuns
    /\ worker' = [worker EXCEPT ![p].pc = "run_check", ![p].ret = back,
                                ![p].gen = nextGen,
                                ![p].inlineRuns = worker[p].inlineRuns + 1]
    /\ nextGen' = nextGen + 1

\* if not PROCESSED_CSV.exists(): run_pipeline()
QCheckCsv(p) ==
    /\ worker[p].pc = "q_check_csv"
    /\ IF ~Exists(processedCsv)
         THEN InlineRun(p, "q_check_model")
         ELSE /\ worker' = [worker EXCEPT ![p].pc = "q_check_model"]
              /\ nextGen' = nextGen
    /\ UNCHANGED <<others, rawCsv, processedCsv, modelFile>>

\* Faulty variant: the pipeline is run whether or not the model file exists.
QCheckModel_AlwaysRuns(p) ==
    /\ worker[p].pc = "q_check_model"
    /\ InlineRun(p, "q_read_csv")
    /\ UNCHANGED <<others, rawCsv, processedCsv, modelFile>>

\* if not MODEL_PATH.exists(): run_pipeline()
QCheckModel(p) ==
    /\ worker[p].pc = "q_check_model"
    /\ IF ~Exists(modelFile)
         THEN InlineRun(p, "q_read_csv")
         ELSE /\ worker' = [worker EXCEPT ![p].pc = "q_read_csv"]
              /\ nextGen' = nextGen
    /\ UNCHANGED <<others, rawCsv, processedCsv, modelFile>>

\* df = pd.read_csv(PROCESSED_CSV): reads whatever the file holds now.  A
\* file caught mid-write parses to the rows written so far or fails to parse.
QReadCsv(p) ==
    /\ worker[p].pc = "q_read_csv"
    /\ \E parsed \in BOOLEAN :
         /\ (~parsed => processedCsv.st = "partial")
         /\ worker' = [worker EXCEPT
                         ![p].readCsv = processedCsv.st,
                         ![p].pc = IF parsed THEN "q_load_model" ELSE "idle",
                         ![p].outcome = IF parsed THEN worker[p].outcome
                                        ELSE "read_error"]
    /\ UNCHANGED <<others, rawCsv, processedCsv, modelFile, nextGen>>

\* model = joblib.load(MODEL_PATH), then the ranking (RankSpec) and return.
QLoadModel(p) ==
    /\ worker[p].pc = "q_load_model"
    /\ worker' = [worker EXCEPT ![p].pc = "idle", ![p].outcome = "ok"]
    /\ UNCHANGED <<others, rawCsv, processedCsv, modelFile, nextGen>>

\* =========================================================== ranking view
\* ------------------------------------------------------------ rank bounds
\* Rows of the persisted table.
MaxRows == 2
\* Rows of the warehouse file.
MaxWarehouses == 1
\* predict_proba values are k / ProbLevels for k in 0..ProbLevels.
ProbLevels == 1

\* Earth radius in km (haversine).
R == 6371
\* The 1e-9 added to both denominators, as 1/EpsInv of the metric's unit
\* (1e-3 here: the products of the score must stay within TLC's integers;
\* only its being positive and smaller than any difference matters).
EpsInv == 1000

NoCity == 0              \* dc_city = None (or the empty string)
Products == {1, 2}
SupplierCities == {1, 2}
Reliabilities == {80, 90}          \* PastReliability, in hundredths
\* All locations lie on one meridian; Latitude is counted in units of 1/R
\* radian (one km of arc) north of a reference point, city c lying at c.
\* Warehouse rows: city 1 may also hold suppliers, city 3 never does, city 4
\* lies outside India.
WarehouseRows ==
    {[City |-> 1, Country |-> "India", Latitude |-> 1, Longitude |-> 0],
     [City |-> 3, Country |-> "India", Latitude |-> 3, Longitude |-> 0],
     [City |-> 4, Country |-> "Other", Latitude |-> 4, Longitude |-> 0]}
TableRows ==
    {[Product |-> p, City |-> c, Latitude |-> c, Longitude |-> 0,
      PastReliability |-> r] :
        p \in Products, c \in SupplierCities, r \in Reliabilities}
DcArgs == {NoCity, 1, 4}

SeqsUpTo(S, n) == UNION {[1..k -> S] : k \in 0..n}
NonEmptySeqsUpTo(S, n) == UNION {[1..k -> S] : k \in 1..n}

NoResult == [status |-> "none"]

\* ---------------------------------------------------------------- helpers
Abs(x) == IF x < 0 THEN -x ELSE x

RECURSIVE SeqMin(_)
SeqMin(s) == IF Len(s) = 1 THEN s[1]
             ELSE LET m == SeqMin(Tail(s)) IN IF s[1] < m THEN s[1] ELSE m

RECURSIVE SeqMax(_)
SeqMax(s) == IF Len(s) = 1 THEN s[1]
             ELSE LET m == SeqMax(Tail(s)) IN IF s[1] > m THEN s[1] ELSE m

Elems(s) == {s[i] : i \in 1..Len(s)}

\* Series.unique(): the distinct values in order of first appearance.
RECURSIVE Unique(_)
Unique(s) ==
    IF s = <<>> THEN <<>>
    ELSE LET init == Unique(SubSeq(s, 1, Len(s) - 1))
             last == s[Len(s)]
         IN IF last \in Elems(init) THEN init ELSE Append(init, last)

\* haversine(lat1, lon1, lat2, lon2) for two points of one meridian (lon1 =
\* lon2, so dlon = 0): a = sin^2(dlat/2), c = 2*atan2(sqrt(a), sqrt(1-a)) =
\* |dlat|, distance = R * |dlat|; with latitudes in units of 1/R radian that
\* is |lat2 - lat1| km.
haversine(lat1, lon1, lat2, lon2) == (R * Abs(lat2 - lat1)) \div R

\* Faulty variant: the minimum is not subtracted.
MinMaxNorm_NoShift(x, lo, hi, scale) ==
    IF hi - lo # 0
      THEN [num |-> x * EpsInv, den |-> (hi - lo) * EpsInv + scale]
      ELSE [num |-> 0, den |-> 1]

\* (x - min) / (max - min + 1e-9) if (max - min) != 0 else 0, as a fraction
\* num/den; x, lo, hi are in units of 1/scale.
MinMaxNorm(x, lo, hi, scale) ==
    IF hi - lo # 0
      THEN [num |-> (x - lo) * EpsInv, den |-> (hi - lo) * EpsInv + scale]
      ELSE [num |-> 0, den |-> 1]

\* 0.7 * RiskNorm + 0.3 * DistNorm, as a fraction.  The denominators of the
\* two norms are the same on every row of a table, so the scores of one
\* table share their denominator and compare by numerator.
CombinedScoreOf(rn, dn) ==
    [num |-> 7 * rn.num * dn.den + 3 * dn.num * rn.den,
     den |-> 10 * rn.den * dn.den]

\* Faulty variant: the tie on CombinedScore broken by the lower PastReliability
\* (ascending=[True, True]).
SortsBefore_BothAscending(a, b) ==
    \/ a.CombinedScore.num < b.CombinedScore.num
    \/ /\ a.CombinedScore.num = b.CombinedScore.num
       /\ a.PastReliability < b.PastReliability

\* sort_values(by=["CombinedScore", "PastReliability"], ascending=[True,
\* False]): a comes before b.
SortsBefore(a, b) ==
    \/ a.CombinedScore.num < b.CombinedScore.num
    \/ /\ a.CombinedScore.num = b.CombinedScore.num
       /\ a.PastReliability > b.PastReliability

\* The multi-key sort is stable: a row goes in front of the first row it
\* sorts before.
RECURSIVE InsertSorted(_, _)
InsertSorted(sorted, r) ==
    IF sorted = <<>> THEN <<r>>
    ELSE IF SortsBefore(r, Head(sorted)) THEN <<r>> \o sorted
    ELSE <<Head(sorted)>> \o InsertSorted(Tail(sorted), r)

RECURSIVE SortValues(_)
SortValues(group) ==
    IF group = <<>> THEN <<>>
    ELSE InsertSorted(SortValues(SubSeq(group, 1, Len(group) - 1)),
                      group[Len(group)])

\* get_best_for_product: group.sort_values(...).head(1)
get_best_for_product(group) == SubSeq(SortValues(group), 1, 1)

\* df.groupby("Product").apply(get_best_for_product): the groups in ascending
\* key order, each group's rows in table order.
RECURSIVE ApplyGroups(_, _)
ApplyGroups(df, keys) ==
    IF keys = {} THEN <<>>
    ELSE LET k == CHOOSE x \in keys : \A y \in keys : x <= y
             group == SelectSeq(df, LAMBDA r : r.Product = k)
         IN get_best_for_product(group) \o ApplyGroups(df, keys \ {k})

GroupByProduct(df) == ApplyGroups(df, {df[i].Product : i \in 1..Len(df)})

\* warehouses_df[warehouses_df['Country'] == 'India']
IndiaWarehouses(wh) == SelectSeq(wh, LAMBDA w : w.Country = "India")

UniqueCities(india) == Unique([i \in 1..Len(india) |-> india[i].City])

\* india_warehouses_df[india_warehouses_df["City"] == city].iloc[0]
WarehouseOf(india, city) == Head(SelectSeq(india, LAMBDA w : w.City = city))

\* Faulty variant: when every warehouse city holds a supplier, fall back to the first
\* warehouse city.
ResolveDC_FirstCityFallback(dc_city, df, india) ==
    LET unique_cities == UniqueCities(india)
        supplier_cities == {df[i].City : i \in 1..Len(df)}
        non_overlapping == SelectSeq(unique_cities, LAMBDA c : c \notin supplier_cities)
    IN IF dc_city # NoCity /\ dc_city \in Elems(unique_cities)
         THEN [set |-> TRUE, city |-> dc_city,
               lat |-> WarehouseOf(india, dc_city).Latitude,
               lon |-> WarehouseOf(india, dc_city).Longitude]
       ELSE IF unique_cities # <<>> /\ non_overlapping # <<>>
         THEN [set |-> TRUE, city |-> Head(non_overlapping),
               lat |-> WarehouseOf(india, Head(non_overlapping)).Latitude,
               lon |-> WarehouseOf(india, Head(non_overlapping)).Longitude]
       ELSE IF unique_cities # <<>>
         THEN [set |-> TRUE, city |-> Head(unique_cities),
               lat |-> WarehouseOf(india, Head(unique_cities)).Latitude,
               lon |-> WarehouseOf(india, Head(unique_cities)).Longitude]
       ELSE [set |-> FALSE, city |-> NoCity, lat |-> 0, lon |-> 0]

\* The DC of a query: the branches of lines 182-214.
ResolveDC(dc_city, df, india) ==
    LET unique_cities == UniqueCities(india)
        supplier_cities == {df[i].City : i \in 1..Len(df)}
        non_overlapping == SelectSeq(unique_cities, LAMBDA c : c \notin supplier_cities)
    IN IF dc_city # NoCity /\ dc_city \in Elems(unique_cities)
         THEN [set |-> TRUE, city |-> dc_city,
               lat |-> WarehouseOf(india, dc_city).Latitude,
               lon |-> WarehouseOf(india, dc_city).Longitude]
       ELSE IF unique_cities # <<>> /\ non_overlapping # <<>>
         THEN [set |-> TRUE, city |-> Head(non_overlapping),
               lat |-> WarehouseOf(india, Head(non_overlapping)).Latitude,
               lon |-> WarehouseOf(india, Head(non_overlapping)).Longitude]
       ELSE [set |-> FALSE, city |-> NoCity, lat |-> 0, lon |-> 0]

\* Lines 216-229: the derived columns of every row.
Scored(df, proba, dc_lat, dc_lon) ==
    LET dist == [i \in 1..Len(df) |->
                   haversine(dc_lat, dc_lon, df[i].Latitude, df[i].Longitude)]
        min_fail_prob == SeqMin(proba)
        max_fail_prob == SeqMax(proba)
        min_dist_km == SeqMin(dist)
        max_dist_km == SeqMax(dist)
    IN [i \in 1..Len(df) |->
          LET rn == MinMaxNorm(proba[i], min_fail_prob, max_fail_prob, ProbLevels)
              dn == MinMaxNorm(dist[i], min_dist_km, max_dist_km, 1)
          IN [Product |-> df[i].Product, City |-> df[i].City,
              Latitude |-> df[i].Latitude, Longitude |-> df[i].Longitude,
              PastReliability |-> df[i].PastReliability,
              FailureProb |-> proba[i], DistanceKM |-> dist[i],
              RiskNorm |-> rn, DistNorm |-> dn,
              CombinedScore |-> CombinedScoreOf(rn, dn)]]

\* get_best_suppliers after the two artifacts are loaded (lines 172-245).
RankResult(dc_city, df, proba, whFile) ==
    IF ~whFile.exists
      THEN [status |-> "error", dc_city |-> dc_city]   \* pd.read_csv raises
    ELSE
      LET india == IndiaWarehouses(whFile.rows)
          dc == ResolveDC(dc_city, df, india)
      IN IF ~dc.set
           THEN [status |-> "returned", dc_city |-> dc_city, dc |-> dc,
                 best_suppliers |-> <<>>, all_suppliers |-> df,
                 unique_cities |-> UniqueCities(india), warehouses |-> india]
         ELSE
           LET scored == Scored(df, proba, dc.lat, dc.lon)
           IN [status |-> "returned", dc_city |-> dc_city, dc |-> dc,
               best_suppliers |-> GroupByProduct(scored),
               all_suppliers |-> scored,
               unique_cities |-> UniqueCities(india), warehouses |-> india]

\* One call of get_best_suppliers(dc_city) with both artifacts present.
GetBestSuppliers ==
    /\ result = NoResult
    /\ \E dc_city \in DcArgs :
         result' = RankResult(dc_city, table, predicted, warehousesCsv)
    /\ UNCHANGED <<lifeVars, riskVars, table, predicted, warehousesCsv>>

LifeIdle ==
    /\ rawCsv = TRUE
    /\ processedCsv = Full(0)
    /\ modelFile = Full(0)
    /\ nextGen = 1
    /\ worker = [p \in Workers |-> IdleWorker]

RankIdle ==
    /\ table = <<>>
    /\ predicted = <<>>
    /\ warehousesCsv = [exists |-> FALSE, rows |-> <<>>]
    /\ result = NoResult

RiskIdle ==
    /\ riskDf = <<>>
    /\ riskCsv = <<>>
    /\ riskPc = "idle"

\* The table and the model loaded by a query (a run that read no rows cannot
\* fit a model, so the table has rows), and any warehouse file.
RankInit ==
    /\ LifeIdle
    /\ RiskIdle
    /\ table \in NonEmptySeqsUpTo(TableRows, MaxRows)
    /\ predicted \in [1..Len(table) -> 0..ProbLevels]
    /\ warehousesCsv \in
         {[exists |-> FALSE, rows |-> <<>>]} \cup
         {[exists |-> TRUE, rows |-> w] : w \in SeqsUpTo(WarehouseRows, MaxWarehouses)}
    /\ result = NoResult

RankNext == GetBestSuppliers

RankSpec == RankInit /\ [][RankNext]_vars

\* ======================================================== enrichment view
\* --------------------------------------------------------- risk bounds
\* Rows of the raw dataset in the enrichment view.
RiskRows == 1
\* Largest event count the conflict provider reports.
MaxCount == 21

Null == -1       \* a cell not filled yet
Raised == -2     \* the call raised instead of returning

\* res['weather'][0]['main'] of an answer, or how the call failed.
WeatherMains == {"Thunderstorm", "Extreme", "Tornado", "Rain", "Snow",
                 "Clouds", "Clear", "Mist"}
CallFailures == {"network_error", "malformed", "missing_field"}
WeatherResponses == WeatherMains \cup CallFailures

\* The conflict provider: an answer carrying "count", an answer without the
\* field (res.get("count", 0)), or a failed call.
WarResponses ==
    {[kind |-> "count", count |-> c] : c \in 0..MaxCount}
    \cup {[kind |-> k, count |-> 0] : k \in {"no_count", "network_error", "malformed"}}

\* Risks are in hundredths.  round(random.uniform(0.6, 0.9), 1),
\* round(random.uniform(0.4, 0.8), 1) and samples of random.uniform(0, 0.1).
WeatherFallbacks == {60, 70, 80, 90}
WarFallbacks == {40, 50, 60, 70, 80}
Jitters == {0, 5, 10}

Min(a, b) == IF a < b THEN a ELSE b

\* The try block of fetch_weather_risk.
WeatherTry(res) ==
    IF res \in CallFailures THEN Raised
    ELSE IF res \in {"Thunderstorm", "Extreme", "Tornado"} THEN 95
    ELSE IF res \in {"Rain", "Snow"} THEN 70
    ELSE IF res = "Clouds" THEN 50
    ELSE 30

\* fetch_weather_risk: except Exception -> the random fallback.
fetch_weather_risk(res, fallback) ==
    IF WeatherTry(res) = Raised THEN fallback ELSE WeatherTry(res)

\* Faulty variant: the score is not capped at 1.0.
WarTry_NoCap(res, jitter) ==
    IF res.kind \in {"network_error", "malformed"} THEN Raised
    ELSE res.count * 5 + jitter

\* The try block of fetch_war_risk.
WarTry(res, jitter) ==
    IF res.kind \in {"network_error", "malformed"} THEN Raised
    ELSE Min(100, res.count * 5 + jitter)

\* fetch_war_risk: except Exception -> the random fallback.
fetch_war_risk(res, jitter, fallback) ==
    IF WarTry(res, jitter) = Raised THEN fallback ELSE WarTry(res, jitter)

\* The first row whose column is still to be filled.
NextRow(col) == CHOOSE i \in 1..Len(riskDf) :
    /\ riskDf[i][col] = Null
    /\ \A j \in 1..(i - 1) : riskDf[j][col] # Null

ColumnFull(df, col) == \A i \in 1..Len(df) : df[i][col] # Null

\* run_pipeline reads the raw rows (lines 105-129).
EnrichStart ==
    /\ riskPc = "idle"
    /\ riskCsv = <<>>
    /\ \E n \in 1..RiskRows :
         riskDf' = [i \in 1..n |->
                      [WeatherRisk |-> Null, WarRisk |-> Null,
                       weatherCall |-> "none", warCall |-> "none"]]
    /\ riskPc' = "weather"
    /\ UNCHANGED <<lifeVars, rankVars, riskCsv>>

\* df["WeatherRisk"] = df.apply(... fetch_weather_risk ...): one row.  A value
\* raised out of the call would end the run.
EnrichWeather ==
    /\ riskPc = "weather"
    /\ \E res \in WeatherResponses, fallback \in WeatherFallbacks :
         LET i == NextRow("WeatherRisk")
             v == fetch_weather_risk(res, fallback)
             df == [riskDf EXCEPT ![i].WeatherRisk = v,
                                  ![i].weatherCall =
                                      IF res \in CallFailures THEN res ELSE "answer"]
         IN /\ riskDf' = df
            /\ riskPc' = IF v = Raised THEN "failed"
                         ELSE IF ColumnFull(df, "WeatherRisk") THEN "war"
                         ELSE "weather"
    /\ UNCHANGED <<lifeVars, rankVars, riskCsv>>

\* df["WarRisk"] = df.apply(... fetch_war_risk ...): one row.
EnrichWar ==
    /\ riskPc = "war"
    /\ \E res \in WarResponses, jitter \in Jitters, fallback \in WarFallbacks :
         LET i == NextRow("WarRisk")
             v == fetch_war_risk(res, jitter, fallback)
             df == [riskDf EXCEPT ![i].WarRisk = v, ![i].warCall = res.kind]
         IN /\ riskDf' = df
            /\ riskPc' = IF v = Raised THEN "failed"
                         ELSE IF ColumnFull(df, "WarRisk") THEN "write"
                         ELSE "war"
    /\ UNCHANGED <<lifeVars, rankVars, riskCsv>>

\* df.to_csv(PROCESSED_CSV, index=False)
EnrichWrite ==
    /\ riskPc = "write"
    /\ riskCsv' = riskDf
    /\ riskPc' = "idle"
    /\ UNCHANGED <<lifeVars, rankVars, riskDf>>

RiskInit == LifeIdle /\ RankIdle /\ RiskIdle

RiskNext == EnrichStart \/ EnrichWeather \/ EnrichWar \/ EnrichWrite

RiskSpec == RiskInit /\ [][RiskNext]_vars

\* ------------------------------------------------------------- lifecycle
Step(p) ==
    \/ ApiRunPipeline(p)
    \/ ApiBestSuppliers(p)
    \/ RunCheckRaw(p)
    \/ RunFetchRisk(p)
    \/ RunToCsvOpen(p)
    \/ RunToCsvClose(p)
    \/ RunTrainModel(p)
    \/ QCheckCsv(p)
    \/ QCheckModel(p)
    \/ QReadCsv(p)
    \/ QLoadModel(p)

\* The files as a process start may find them: each artifact is absent or
\* left by an earlier process (generation 0).
Init ==
    /\ rawCsv \in BOOLEAN
    /\ processedCsv \in {Absent, Full(0)}
    /\ modelFile \in {Absent, Full(0)}
    /\ nextGen = 1
    /\ worker = [p \in Workers |-> IdleWorker]
    /\ RankIdle
    /\ RiskIdle

Next == \E p \in Workers : Step(p)

Spec == Init /\ [][Next]_vars

\* One call at a time: a request starts only when no other is in progress.
Quiet(p) == \A q \in Workers \ {p} : worker[q].pc = "idle"

SeqNext == \E p \in Workers :
    \/ Quiet(p) /\ ApiRunPipeline(p)
    \/ Quiet(p) /\ ApiBestSuppliers(p)
    \/ RunCheckRaw(p)
    \/ RunFetchRisk(p)
    \/ RunToCsvOpen(p)
    \/ RunToCsvClose(p)
    \/ RunTrainModel(p)
    \/ QCheckCsv(p)
    \/ QCheckModel(p)
    \/ QReadCsv(p)
    \/ QLoadModel(p)

SeqSpec == Init /\ [][SeqNext]_vars

\* Every worker thread that can take a step eventually takes one.
FairSpec == Init /\ [][Next]_vars /\ \A p \in Workers : WF_vars(Step(p))

\* ================================================================ claims
Rows(s) == 1..Len(s)
Ranked == result.status = "returned" /\ result.dc.set

\* C1: best_suppliers holds exactly one row for each Product of the scored
\* table; that row's CombinedScore is <= that of every row of the Product,
\* and no row of the Product tied with it has a higher PastReliability.
C1_OneBestPerProduct ==
    Ranked =>
      LET all == result.all_suppliers
          best == result.best_suppliers
          products == {all[i].Product : i \in Rows(all)}
      IN /\ Len(best) = Cardinality(products)
         /\ \A k \in products :
              Cardinality({j \in Rows(best) : best[j].Product = k}) = 1
         /\ \A j \in Rows(best) :
              /\ \E i \in Rows(all) : all[i] = best[j]
              /\ \A i \in Rows(all) :
                   all[i].Product = best[j].Product =>
                     /\ best[j].CombinedScore.den = all[i].CombinedScore.den
                     /\ best[j].CombinedScore.num <= all[i].CombinedScore.num
                     /\ (best[j].CombinedScore.num = all[i].CombinedScore.num
                           => best[j].PastReliability >= all[i].PastReliability)

\* C1 witness: two rows of one Product tie on CombinedScore, differ in
\* PastReliability, and the more reliable one is the one returned.
C1_Witness ==
    /\ Ranked
    /\ \E i, j \in Rows(result.all_suppliers) :
         LET a == result.all_suppliers[i]
             b == result.all_suppliers[j]
         IN /\ i > j
            /\ a.Product = b.Product
            /\ a.CombinedScore = b.CombinedScore
            /\ a.PastReliability > b.PastReliability
            /\ result.best_suppliers = <<a>>

\* C2 (state part): in a sequence of calls, a query has made an inline
\* pipeline run only if an artifact was missing when it started, and once it
\* has ended it has made one if an artifact was missing.
C2_Inv ==
    \A p \in Workers :
      worker[p].kind = "query" =>
        /\ worker[p].inlineRuns > 0 => worker[p].startMissing
        /\ (worker[p].pc = "idle" /\ worker[p].startMissing)
              => worker[p].inlineRuns > 0

\* C2 (step part): no step of a query that found both artifacts present
\* changes either of them, and at the step that returns a query's result both
\* artifacts exist, complete.
C2_Act ==
    \A p \in Workers :
      worker[p].kind = "query" =>
        /\ (worker[p].pc # "idle" /\ ~worker[p].startMissing)
              => (processedCsv' = processedCsv /\ modelFile' = modelFile)
        /\ (worker[p].pc # "idle" /\ worker'[p].pc = "idle"
              /\ worker'[p].outcome = "ok")
              => (processedCsv'.st = "full" /\ modelFile'.st = "full")

\* C2: get_best_suppliers runs the pipeline inline if and only if the
\* persisted table or the persisted model is missing when the call starts;
\* with both present it leaves them unchanged, and with one missing both
\* exist when it returns its result.
C2_InlineRunIffMissing == []C2_Inv /\ [][C2_Act]_vars

\* C2 witness: a query that started with an artifact missing has run the
\* pipeline inline, read the complete table and returned its result.
C2_Witness ==
    \E p \in Workers :
      /\ worker[p].kind = "query" /\ worker[p].pc = "idle"
      /\ worker[p].outcome = "ok"
      /\ worker[p].startMissing /\ worker[p].inlineRuns = 1
      /\ worker[p].readCsv = "full"

\* C3: with the raw dataset missing, run_pipeline (called directly or inline)
\* ends with the "not found" error at its first step and leaves the persisted
\* table and the persisted model as they were.
C3_MissingRawWritesNothing ==
    [][\A p \in Workers :
         (worker[p].pc = "run_check" /\ ~rawCsv /\ worker'[p] # worker[p])
           => /\ worker'[p].pc = "idle"
              /\ worker'[p].outcome = "not_found"
              /\ processedCsv' = processedCsv
              /\ modelFile' = modelFile]_vars

\* C3 witness: an inline run of a query and a direct run have both ended
\* "not found".
C3_Witness ==
    /\ ~rawCsv
    /\ \E p, q \in Workers :
         /\ worker[p].kind = "query" /\ worker[p].inlineRuns = 1
         /\ worker[p].pc = "idle" /\ worker[p].outcome = "not_found"
         /\ worker[q].kind = "run"
         /\ worker[q].pc = "idle" /\ worker[q].outcome = "not_found"

\* No DC can be resolved: no warehouse data, none left after the country
\* filter, or every candidate city is a supplier city (and the caller named
\* no candidate city).
NoDcResolvable ==
    LET india == IF warehousesCsv.exists
                   THEN SelectSeq(warehousesCsv.rows, LAMBDA w : w.Country = "India")
                   ELSE <<>>
        cities == {india[i].City : i \in Rows(india)}
        supplier == {table[i].City : i \in Rows(table)}
    IN \/ ~warehousesCsv.exists
       \/ india = <<>>
       \/ (cities \subseteq supplier /\ result.dc_city \notin cities)

\* C4: whenever no DC can be resolved, get_best_suppliers does not fail: it
\* returns best_suppliers empty and all_suppliers holding every row of the
\* persisted table.
C4_NoDcReturnsEmpty ==
    (result # NoResult /\ NoDcResolvable) =>
        /\ result.status = "returned"
        /\ result.best_suppliers = <<>>
        /\ result.all_suppliers = table

C6_RisksInUnitInterval ==
    /\ riskPc # "failed"
    /\ \A i \in Rows(riskDf) :
         /\ riskDf[i].weatherCall # "none" => riskDf[i].WeatherRisk \in 0..100
         /\ riskDf[i].warCall # "none" => riskDf[i].WarRisk \in 0..100
    /\ \A i \in Rows(riskCsv) :
         /\ riskCsv[i].WeatherRisk \in 0..100
         /\ riskCsv[i].WarRisk \in 0..100

\* C6 witness: a table was written whose first row met a failed weather call
\* and a conflict count large enough to be capped.
C6_Witness ==
    /\ riskCsv # <<>>
    /\ riskCsv[1].weatherCall = "network_error"
    /\ riskCsv[1].warCall = "count"
    /\ riskCsv[1].WarRisk = 100

\* The column `norm` of min-max normalised `raw` values (in units of
\* 1/scale), with the claim's value for the row holding the maximum.
NormOk(all, raw, norm, scale, exactOne) ==
    LET lo == CHOOSE x \in {all[i][raw] : i \in Rows(all)} :
                 \A i \in Rows(all) : x <= all[i][raw]
        hi == CHOOSE x \in {all[i][raw] : i \in Rows(all)} :
                 \A i \in Rows(all) : x >= all[i][raw]
    IN \A i \in Rows(all) :
         LET n == all[i][norm]
         IN /\ n.den > 0 /\ 0 <= n.num /\ n.num <= n.den
            /\ lo = hi => n.num = 0
            /\ (lo # hi /\ all[i][raw] = lo) => n.num = 0
            /\ (lo # hi /\ all[i][raw] = hi) =>
                 IF exactOne THEN n.num = n.den
                 ELSE /\ n.num = (hi - lo) * EpsInv
                      /\ n.den = (hi - lo) * EpsInv + scale
                      /\ \A j \in Rows(all) :
                           /\ all[j][norm].den = n.den
                           /\ all[j][norm].num <= n.num

\* The original C7: RiskNorm and DistNorm lie in [0,1]; when the raw metric
\* differs between rows the minimum normalises to 0 and the maximum to 1;
\* when it is equal on all rows every row normalises to 0.
C7_Original ==
    Ranked =>
      /\ NormOk(result.all_suppliers, "FailureProb", "RiskNorm", ProbLevels, TRUE)
      /\ NormOk(result.all_suppliers, "DistanceKM", "DistNorm", 1, TRUE)

\* C7 (amended): as the original, except that the row holding the maximum
\* normalises to (max - min) / (max - min + 1e-9), the largest value of the
\* column and strictly below 1.
C7_NormBelowOne ==
    Ranked =>
      /\ NormOk(result.all_suppliers, "FailureProb", "RiskNorm", ProbLevels, FALSE)
      /\ NormOk(result.all_suppliers, "DistanceKM", "DistNorm", 1, FALSE)

\* C7 witness: a scored table whose rows differ in FailureProb and in
\* DistanceKM.
C7_Witness ==
    /\ Ranked
    /\ \E i, j \in Rows(result.all_suppliers) :
         /\ result.all_suppliers[i].FailureProb < result.all_suppliers[j].FailureProb
         /\ result.all_suppliers[i].DistanceKM > result.all_suppliers[j].DistanceKM
         /\ result.all_suppliers[j].RiskNorm.num > 0
         /\ result.all_suppliers[i].DistNorm.num > 0

\* C8: no query reads the persisted table while a run is rewriting it.
C8_NoPartialRead ==
    \A p \in Workers : worker[p].readCsv # "partial"

\* C9: every run_pipeline call eventually ends, also when a provider never
\* answers.
C9_RunTerminates ==
    \A p \in Workers : (worker[p].pc \in RunPcs) ~> (worker[p].pc \notin RunPcs)

\* C10: whenever a query is about to load the artifacts, and whenever a
\* run_pipeline call has ended, the persisted model is the one trained on the
\* persisted table.
C10_ModelMatchesTable ==
    \A p \in Workers :
      (\/ worker[p].pc = "q_read_csv"
       \/ (worker[p].kind = "run" /\ worker[p].pc = "idle"
             /\ worker[p].outcome \in {"ok", "train_error"}))
        => ((Exists(processedCsv) /\ Exists(modelFile))
              => (processedCsv.st = "full" /\ modelFile.gen = processedCsv.gen))

====
